---- MODULE Spec2Model ----
(***************************************************************************)
(* cidrfinder: a registry of (key, cidr) records kept in one DynamoDB      *)
(* table whose hash key is "key".  Two variants of the service exist: the  *)
(* HTTP server (src/cidr.go + src/server.go) and the Lambda (src/main.go). *)
(*                                                                         *)
(* Go strings are modelled as TLA+ strings and taken apart byte by byte    *)
(* with SubSeq, so that formatting ("10.%d.0.0/16"), parsing               *)
(* (net.ParseCIDR), strings.HasPrefix and the byte-wise order used by      *)
(* sort.Slice are computed, not assumed.                                   *)
(***************************************************************************)
EXTENDS Integers, Sequences, FiniteSets, TLC

VARIABLES
    store,    \* the DynamoDB table: a set of records [key, cidr]
    before,   \* the table as it was when the last handled request started
    resp,     \* the last handled request and its response
    calls     \* concurrent RegisterCIDR calls in flight (SpecConc only)

vars == <<store, before, resp, calls>>

(***************************************************************************)
(* Bytes and strings.                                                      *)
(***************************************************************************)

\* The bytes that occur in the modelled texts, in ascending byte order.
Alphabet == "-./0123456789abcdefghijklmnopqrstuvwxyz"

Digits == "0123456789"

\* s[i-1] of the Go string s (TLA+ sequences count from 1)
At(s, i) == SubSeq(s, i, i)

\* rank of each byte in the byte order, tabulated once
Rank == [c \in {At(Alphabet, i) : i \in 1..Len(Alphabet)} |->
            CHOOSE i \in 1..Len(Alphabet) : At(Alphabet, i) = c]

Ord(c) == Rank[c]

IsDigit(c) == \E d \in 1..Len(Digits) : At(Digits, d) = c

DigitVal(c) == (CHOOSE d \in 1..Len(Digits) : At(Digits, d) = c) - 1

\* Go's < on strings: byte-wise lexicographic, a proper prefix is smaller
RECURSIVE LessFrom(_, _, _)
LessFrom(a, b, i) ==
    IF i > Len(b) THEN FALSE
    ELSE IF i > Len(a) THEN TRUE
    ELSE IF At(a, i) = At(b, i) THEN LessFrom(a, b, i + 1)
    ELSE Ord(At(a, i)) < Ord(At(b, i))

StrLess(a, b) == LessFrom(a, b, 1)

\* strings.HasPrefix
HasPrefix(s, p) == Len(s) >= Len(p) /\ SubSeq(s, 1, Len(p)) = p

\* the %d verb of fmt.Sprintf for a non-negative int
RECURSIVE Itoa(_)
Itoa(n) ==
    IF n < 10 THEN At(Digits, n + 1)
    ELSE Itoa(n \div 10) \o At(Digits, (n % 10) + 1)

\* index of the first byte c of s at or after position i, 0 when there is none
RECURSIVE IndexFrom(_, _, _)
IndexFrom(s, c, i) ==
    IF i > Len(s) THEN 0
    ELSE IF At(s, i) = c THEN i
    ELSE IndexFrom(s, c, i + 1)

IndexByte(s, c) == IndexFrom(s, c, 1)

(***************************************************************************)
(* net.ParseCIDR, as validateCIDR uses it: only whether the text parses.   *)
(* The modelled texts hold no ':' and no '%', so the IPv6 and zone         *)
(* branches of the address parser are not reached.                         *)
(***************************************************************************)

\* the IPv4 field scan: val and digLen describe the octet being read, pos
\* counts the octets already closed by a '.'
RECURSIVE parseIPv4Fields(_, _, _, _, _)
parseIPv4Fields(s, i, val, digLen, pos) ==
    IF i > Len(s) THEN pos = 3
    ELSE IF IsDigit(At(s, i)) THEN
        IF digLen = 1 /\ val = 0 THEN FALSE
        ELSE LET v == val * 10 + DigitVal(At(s, i)) IN
             IF v > 255 THEN FALSE
             ELSE parseIPv4Fields(s, i + 1, v, digLen + 1, pos)
    ELSE IF At(s, i) = "." THEN
        IF i = 1 \/ i = Len(s) \/ At(s, i - 1) = "." THEN FALSE
        ELSE IF pos = 3 THEN FALSE
        ELSE parseIPv4Fields(s, i + 1, 0, 0, pos + 1)
    ELSE FALSE

\* netip.ParseAddr succeeds: the text holds a '.' and scans as four octets
ParseAddr(s) == IndexByte(s, ".") > 0 /\ parseIPv4Fields(s, 1, 0, 0, 0)

\* dtoi: the decimal number the text starts with; i is the count of bytes read
RECURSIVE dtoiFrom(_, _, _)
dtoiFrom(s, i, n) ==
    IF i <= Len(s) /\ IsDigit(At(s, i)) THEN
        LET m == n * 10 + DigitVal(At(s, i)) IN
        IF m >= 16777215 THEN [n |-> 16777215, i |-> i - 1, ok |-> FALSE]
        ELSE dtoiFrom(s, i + 1, m)
    ELSE IF i = 1 THEN [n |-> 0, i |-> 0, ok |-> FALSE]
    ELSE [n |-> n, i |-> i - 1, ok |-> TRUE]

dtoi(s) == dtoiFrom(s, 1, 0)

\* net.ParseCIDR returns no error
ParseCIDR(s) ==
    LET slash == IndexByte(s, "/") IN
    /\ slash > 0
    /\ LET addr == SubSeq(s, 1, slash - 1)
           mask == SubSeq(s, slash + 1, Len(s))
           d    == dtoi(mask)
       IN /\ ParseAddr(addr)
          /\ d.ok
          /\ d.i = Len(mask)
          /\ d.n >= 0
          /\ d.n <= 32

(***************************************************************************)
(* The DynamoDB table.  "key" is the hash key, so PutItem replaces the     *)
(* item that has the same key and DeleteItem is silent about absence.      *)
(***************************************************************************)

\* PutItem gone wrong: an item with the same key is kept beside the new one
PutItemAppend(tbl, rec) == tbl \cup {rec}

\* PutItem gone wrong: the new item replaces the whole table
PutItemClobber(tbl, rec) == {rec}

PutItem(tbl, rec) == {r \in tbl : r.key # rec.key} \cup {rec}

\* DeleteItem gone wrong: every item is removed
DeleteItemAll(tbl, key) == {}

DeleteItem(tbl, key) == {r \in tbl : r.key # key}

\* every order in which the items of a set can be listed
RECURSIVE Orders(_)
Orders(S) ==
    IF S = {} THEN {<<>>}
    ELSE UNION {{<<r>> \o t : t \in Orders(S \ {r})} : r \in S}

\* one listing of the items of a set
RECURSIVE SomeOrder(_)
SomeOrder(S) ==
    IF S = {} THEN <<>>
    ELSE LET r == CHOOSE x \in S : TRUE IN <<r>> \o SomeOrder(S \ {r})

\* the tables small enough to have every listing of their items enumerated
MaxOrdered == 3

\* Scan gives no ordering guarantee: the listings a Scan of tbl may return.
\* Every order is tried for a table of up to MaxOrdered items, one order for
\* a larger table.
Scan(tbl) ==
    IF Cardinality(tbl) <= MaxOrdered THEN Orders(tbl)
    ELSE {SomeOrder(tbl)}

(***************************************************************************)
(* Errors, named by the message the code builds.  The specification's      *)
(* kinds: ErrInvalidCIDR is InvalidBlock, ErrKeyExists is DuplicateName,   *)
(* ErrCIDRExists is DuplicateBlock, ErrNoneLeft is PoolExhausted, and the  *)
(* three store errors are StoreUnavailable.                                *)
(***************************************************************************)

Nil == "nil"

ErrInvalidCIDR == "invalid CIDR"

ErrKeyExists == "key already exists"

ErrCIDRExists == "CIDR already exists"

ErrNoneLeft == "no available 10.x.0.0/16 CIDRs remaining"

ErrScan == "failed to scan DynamoDB table"

ErrPut == "failed to put item in DynamoDB"

ErrDelete == "failed to delete item from DynamoDB"

CIDRRecord(key, cidr) == [key |-> key, cidr |-> cidr]

(***************************************************************************)
(* CIDRService of the server variant (src/cidr.go).  A store call that can *)
(* fail takes its outcome as a parameter: scan is [ok, items], the result  *)
(* of the Scan, and putOk / delOk tell whether the write went through.     *)
(***************************************************************************)

\* sort.Slice by Key, as a merge sort.  Keys are the table's hash key, so no
\* two items of a Scan compare equal and the sorted order is the only one
\* sort.Slice can produce.
RECURSIVE Merge(_, _, _, _, _)
Merge(a, b, i, j, acc) ==
    IF i > Len(a) THEN acc \o SubSeq(b, j, Len(b))
    ELSE IF j > Len(b) THEN acc \o SubSeq(a, i, Len(a))
    ELSE IF StrLess(b[j].key, a[i].key)
         THEN Merge(a, b, i, j + 1, Append(acc, b[j]))
         ELSE Merge(a, b, i + 1, j, Append(acc, a[i]))

\* sort.Slice gone wrong: the items are left in the order of the Scan
SortByKeyNone(items) == items

RECURSIVE SortByKey(_)
SortByKey(items) ==
    IF Len(items) <= 1 THEN items
    ELSE LET h == Len(items) \div 2 IN
         Merge(SortByKey(SubSeq(items, 1, h)),
               SortByKey(SubSeq(items, h + 1, Len(items))), 1, 1, <<>>)

GetAllCIDRs(scan) ==
    IF ~scan.ok THEN [err |-> ErrScan, records |-> <<>>]
    ELSE [err |-> Nil, records |-> SortByKey(scan.items)]

\* validateCIDR gone wrong: only a /16 block in 10.x is accepted
validateCIDRPoolOnly(cidr) ==
    IF /\ ParseCIDR(cidr)
       /\ HasPrefix(cidr, "10.")
       /\ SubSeq(cidr, Len(cidr) - 2, Len(cidr)) = "/16"
    THEN Nil ELSE ErrInvalidCIDR

\* validateCIDR gone wrong: every text is accepted
validateCIDRAcceptAll(cidr) == Nil

validateCIDR(cidr) == IF ParseCIDR(cidr) THEN Nil ELSE ErrInvalidCIDR

\* validateUniqueness gone wrong: the CIDR comparison is left out
RECURSIVE UniqueFromKeyOnly(_, _, _, _)
UniqueFromKeyOnly(records, key, cidr, i) ==
    IF i > Len(records) THEN Nil
    ELSE IF records[i].key = key THEN ErrKeyExists
    ELSE UniqueFromKeyOnly(records, key, cidr, i + 1)

\* validateUniqueness gone wrong: the loop returns after its first record
UniqueFromFirstOnly(records, key, cidr, i) ==
    IF i > Len(records) THEN Nil
    ELSE IF records[i].key = key THEN ErrKeyExists
    ELSE IF records[i].cidr = cidr THEN ErrCIDRExists
    ELSE Nil

\* the loop of validateUniqueness over the sorted records, from record i on
RECURSIVE UniqueFrom(_, _, _, _)
UniqueFrom(records, key, cidr, i) ==
    IF i > Len(records) THEN Nil
    ELSE IF records[i].key = key THEN ErrKeyExists
    ELSE IF records[i].cidr = cidr THEN ErrCIDRExists
    ELSE UniqueFrom(records, key, cidr, i + 1)

validateUniqueness(scan, key, cidr) ==
    LET all == GetAllCIDRs(scan) IN
    IF all.err # Nil THEN all.err
    ELSE UniqueFrom(all.records, key, cidr, 1)

\* RegisterCIDR gone wrong: the uniqueness check runs before the parse
RegisterChecksUniquenessFirst(scan, key, cidr) ==
    LET u == validateUniqueness(scan, key, cidr) IN
    IF u # Nil THEN u ELSE validateCIDR(cidr)

\* RegisterCIDR up to the PutItem: the two validations
RegisterChecks(scan, key, cidr) ==
    IF validateCIDR(cidr) # Nil THEN ErrInvalidCIDR
    ELSE validateUniqueness(scan, key, cidr)

\* the PutItem that ends RegisterCIDR
RegisterPut(tbl, putOk, key, cidr) ==
    IF ~putOk THEN [err |-> ErrPut, store |-> tbl]
    ELSE [err |-> Nil, store |-> PutItem(tbl, CIDRRecord(key, cidr))]

\* RegisterCIDR gone wrong: a failed validation is reported, and the PutItem
\* is made all the same
RegisterCIDRPutsAnyway(tbl, scan, putOk, key, cidr) ==
    LET e == RegisterChecks(scan, key, cidr) IN
    IF e # Nil
    THEN [err |-> e, store |-> RegisterPut(tbl, putOk, key, cidr).store]
    ELSE RegisterPut(tbl, putOk, key, cidr)

RegisterCIDR(tbl, scan, putOk, key, cidr) ==
    LET e == RegisterChecks(scan, key, cidr) IN
    IF e # Nil THEN [err |-> e, store |-> tbl]
    ELSE RegisterPut(tbl, putOk, key, cidr)

\* DeleteCIDR gone wrong: an absent key is reported as an error
DeleteCIDRStrict(tbl, delOk, key) ==
    IF ~delOk \/ \A r \in tbl : r.key # key
    THEN [err |-> ErrDelete, store |-> tbl]
    ELSE [err |-> Nil, store |-> DeleteItem(tbl, key)]

\* DeleteCIDR gone wrong: success is reported and the record is kept
DeleteCIDRKeeps(tbl, delOk, key) ==
    IF ~delOk THEN [err |-> ErrDelete, store |-> tbl]
    ELSE [err |-> Nil, store |-> tbl]

DeleteCIDR(tbl, delOk, key) ==
    IF ~delOk THEN [err |-> ErrDelete, store |-> tbl]
    ELSE [err |-> Nil, store |-> DeleteItem(tbl, key)]

\* the last index of the pool: candidates are 10.i.0.0/16 for i = 0..PoolLast
PoolLast == 255

\* fmt.Sprintf("10.%d.0.0/16", i)
Candidate(i) == "10." \o Itoa(i) \o ".0.0/16"

\* the candidate loop gone wrong: it gives up at the first used candidate
FirstFreeStopAtUsed(usedCIDRs, i) ==
    IF i > PoolLast \/ Candidate(i) \in usedCIDRs
    THEN [err |-> ErrNoneLeft, cidr |-> ""]
    ELSE [err |-> Nil, cidr |-> Candidate(i)]

\* the candidate loop gone wrong: a candidate counts as used when any used
\* text starts with its first two octets
RECURSIVE FirstFreeByPrefix(_, _)
FirstFreeByPrefix(usedCIDRs, i) ==
    IF i > PoolLast THEN [err |-> ErrNoneLeft, cidr |-> ""]
    ELSE IF \A u \in usedCIDRs : ~HasPrefix(u, "10." \o Itoa(i) \o ".")
    THEN [err |-> Nil, cidr |-> Candidate(i)]
    ELSE FirstFreeByPrefix(usedCIDRs, i + 1)

\* the candidate loop gone wrong: the index advances by two
RECURSIVE FirstFreeByTwo(_, _)
FirstFreeByTwo(usedCIDRs, i) ==
    IF i > PoolLast THEN [err |-> ErrNoneLeft, cidr |-> ""]
    ELSE IF Candidate(i) \notin usedCIDRs THEN [err |-> Nil, cidr |-> Candidate(i)]
    ELSE FirstFreeByTwo(usedCIDRs, i + 2)

\* the candidate loop gone wrong: a candidate is free only when no candidate
\* from it on is used, so nothing below the highest used one is given again
RECURSIVE FirstFreeAfterUsed(_, _)
FirstFreeAfterUsed(usedCIDRs, i) ==
    IF i > PoolLast THEN [err |-> ErrNoneLeft, cidr |-> ""]
    ELSE IF \A j \in i..PoolLast : Candidate(j) \notin usedCIDRs
    THEN [err |-> Nil, cidr |-> Candidate(i)]
    ELSE FirstFreeAfterUsed(usedCIDRs, i + 1)

\* the candidate loop of GetNextAvailableCIDR, from index i on
RECURSIVE FirstFree(_, _)
FirstFree(usedCIDRs, i) ==
    IF i > PoolLast THEN [err |-> ErrNoneLeft, cidr |-> ""]
    ELSE IF Candidate(i) \notin usedCIDRs THEN [err |-> Nil, cidr |-> Candidate(i)]
    ELSE FirstFree(usedCIDRs, i + 1)

\* GetNextAvailableCIDR gone wrong: the candidate loop starts at 1
GetNextAvailableCIDRFromOne(scan) ==
    LET all == GetAllCIDRs(scan) IN
    IF all.err # Nil THEN [err |-> all.err, cidr |-> ""]
    ELSE LET usedCIDRs == {all.records[n].cidr : n \in
                              {m \in 1..Len(all.records) :
                                  HasPrefix(all.records[m].cidr, "10.")}}
         IN FirstFree(usedCIDRs, 1)

GetNextAvailableCIDR(scan) ==
    LET all == GetAllCIDRs(scan) IN
    IF all.err # Nil THEN [err |-> all.err, cidr |-> ""]
    ELSE LET usedCIDRs == {all.records[n].cidr : n \in
                              {m \in 1..Len(all.records) :
                                  HasPrefix(all.records[m].cidr, "10.")}}
         IN FirstFree(usedCIDRs, 0)

(***************************************************************************)
(* handleCIDRs (src/server.go): one request handled from start to end.     *)
(***************************************************************************)

StatusOK == 200

StatusCreated == 201

StatusBadRequest == 400

StatusInternalServerError == 500

ErrRequired == "both key and cidr fields are required"

ErrKeyRequired == "key parameter is required"

Response(op, key, cidr, status, err, records, next) ==
    [op |-> op, key |-> key, cidr |-> cidr, status |-> status, err |-> err,
     records |-> records, next |-> next]

\* the outcomes of one Scan of the table: a failure, or a listing of its items
ScanResults(tbl) ==
    {[ok |-> FALSE, items |-> <<>>]} \cup {[ok |-> TRUE, items |-> q] : q \in Scan(tbl)}

\* the handler returns: the table becomes tbl and the response is written
Respond(tbl, r) ==
    /\ store' = tbl
    /\ resp' = r
    /\ before' = store
    /\ UNCHANGED calls

\* GET /
HandleList ==
    \E scan \in ScanResults(store) :
        LET r == GetAllCIDRs(scan) IN
        Respond(store, Response("list", "", "",
                    IF r.err # Nil THEN StatusInternalServerError ELSE StatusOK,
                    r.err, r.records, ""))

\* GET /next gone wrong: the block returned is stored as reserved
HandleNextReserving ==
    \E scan \in ScanResults(store) :
        LET r == GetNextAvailableCIDR(scan) IN
        Respond(IF r.err # Nil THEN store
                ELSE PutItem(store, CIDRRecord("reserved", r.cidr)),
                Response("next", "", "",
                    IF r.err # Nil THEN StatusInternalServerError ELSE StatusOK,
                    r.err, <<>>, r.cidr))

\* GET /next
HandleNext ==
    \E scan \in ScanResults(store) :
        LET r == GetNextAvailableCIDR(scan) IN
        Respond(store, Response("next", "", "",
                    IF r.err # Nil THEN StatusInternalServerError ELSE StatusOK,
                    r.err, <<>>, r.cidr))

\* POST / gone wrong: the check for empty fields is left out
HandleRegisterAnyFields(key, cidr) ==
    IF validateCIDR(cidr) # Nil
    THEN Respond(store, Response("register", key, cidr, StatusBadRequest,
                     ErrInvalidCIDR, <<>>, ""))
    ELSE \E scan \in ScanResults(store), putOk \in BOOLEAN :
        LET r == RegisterCIDR(store, scan, putOk, key, cidr) IN
        Respond(r.store, Response("register", key, cidr,
                    IF r.err # Nil THEN StatusBadRequest ELSE StatusCreated,
                    r.err, <<>>, ""))

\* the response to a POST whose RegisterCIDR returned r
Registered(key, cidr, r) ==
    Respond(r.store, Response("register", key, cidr,
                IF r.err # Nil THEN StatusBadRequest ELSE StatusCreated,
                r.err, <<>>, ""))

\* POST / with body {"key": key, "cidr": cidr}.  The store is called only
\* where RegisterCIDR reaches the call: no Scan for a text that does not
\* parse, no PutItem after a failed uniqueness check.
HandleRegister(key, cidr) ==
    IF key = "" \/ cidr = ""
    THEN Respond(store, Response("register", key, cidr, StatusBadRequest,
                     ErrRequired, <<>>, ""))
    ELSE IF validateCIDR(cidr) # Nil
    THEN Registered(key, cidr,
             RegisterCIDR(store, [ok |-> FALSE, items |-> <<>>], FALSE, key, cidr))
    ELSE \E scan \in ScanResults(store) :
        LET r == RegisterCIDR(store, scan, TRUE, key, cidr) IN
        \/ Registered(key, cidr, r)
        \/ /\ r.err = Nil
           /\ Registered(key, cidr, RegisterPut(store, FALSE, key, cidr))

\* DELETE /?key=key
HandleDelete(key) ==
    IF key = ""
    THEN Respond(store, Response("delete", key, "", StatusBadRequest,
                     ErrKeyRequired, <<>>, ""))
    ELSE \E delOk \in BOOLEAN :
        LET r == DeleteCIDR(store, delOk, key) IN
        Respond(r.store, Response("delete", key, "",
                    IF r.err # Nil THEN StatusInternalServerError ELSE StatusOK,
                    r.err, <<>>, ""))

(***************************************************************************)
(* Spec: requests handled one at a time, each to completion, against a     *)
(* table that starts empty.  Keys and block texts come from small sets     *)
(* that hold pool candidates, valid blocks outside the pool, and texts     *)
(* that do not parse.                                                      *)
(***************************************************************************)

Keys == {"", "a", "b", "c"}

Texts == {"", "10.0.0.0/16", "10.1.0.0/16", "10.0.0.0/8", "192.168.0.0/24",
          "not-a-cidr", "10.0.0.0/33"}

\* the concurrent callers of SpecConc
NumCallers == 2

Callers == 1..NumCallers

\* a caller that has made no call yet
Idle == [pc |-> "idle", key |-> "", cidr |-> "", err |-> Nil]

NoResponse == Response("none", "", "", 0, Nil, <<>>, "")

Init ==
    /\ store = {}
    /\ before = {}
    /\ resp = NoResponse
    /\ calls = [p \in Callers |-> Idle]

Next ==
    \/ HandleList
    \/ HandleNext
    \/ \E key \in Keys, cidr \in Texts : HandleRegister(key, cidr)
    \/ \E key \in Keys : HandleDelete(key)

Spec == Init /\ [][Next]_vars

(***************************************************************************)
(* SpecPool: the allocation loop of a client that asks for the next free   *)
(* block and registers the block it was given under a key of its own, and  *)
(* that releases some of its keys.  It fills the table up to the whole     *)
(* pool, which Spec's small input sets cannot.                             *)
(***************************************************************************)

\* the key the allocating client gives the record of a block
ClientKey(cidr) == "n" \o SubSeq(cidr, 4, IndexFrom(cidr, ".", 4) - 1)

\* the keys the client releases
ReleasedKeys == {ClientKey(Candidate(0)), ClientKey(Candidate(PoolLast))}

\* POST of the block the last GET /next returned
ClientRegister ==
    /\ resp.op = "next"
    /\ resp.err = Nil
    /\ HandleRegister(ClientKey(resp.next), resp.next)

NextPool ==
    \/ HandleNext
    \/ ClientRegister
    \/ \E key \in ReleasedKeys : HandleDelete(key)

SpecPool == Init /\ [][NextPool]_vars

\* SpecLoop: the allocation loop alone, the client releasing nothing
NextLoop ==
    \/ HandleNext
    \/ ClientRegister

SpecLoop == Init /\ [][NextLoop]_vars

(***************************************************************************)
(* SpecConc: RegisterCIDR calls of the server variant running at the same  *)
(* time, one per caller, against a table that starts empty.  handleCIDRs   *)
(* builds a CIDRService per request and shares nothing but the table, so   *)
(* a call is two steps on the table: the Scan of validateUniqueness, and   *)
(* later, if the checks passed, the PutItem.                               *)
(***************************************************************************)

ConcKeys == {"a", "b"}

ConcTexts == {"10.0.0.0/16", "10.1.0.0/16", "not-a-cidr"}

Call(pc, key, cidr, err) == [pc |-> pc, key |-> key, cidr |-> cidr, err |-> err]

\* caller p enters RegisterCIDR(key, cidr) and runs it up to the PutItem
CallChecks(p, key, cidr) ==
    /\ calls[p].pc = "idle"
    /\ \E scan \in ScanResults(store) :
           LET e == RegisterChecks(scan, key, cidr) IN
           calls' = [calls EXCEPT ![p] =
                        IF e # Nil THEN Call("done", key, cidr, e)
                        ELSE Call("put", key, cidr, Nil)]
    /\ UNCHANGED <<store, before, resp>>

\* caller p runs the PutItem of its call and returns
CallPut(p) ==
    /\ calls[p].pc = "put"
    /\ \E putOk \in BOOLEAN :
           LET r == RegisterPut(store, putOk, calls[p].key, calls[p].cidr) IN
           /\ store' = r.store
           /\ calls' = [calls EXCEPT ![p] =
                           Call("done", calls[p].key, calls[p].cidr, r.err)]
    /\ UNCHANGED <<before, resp>>

NextConc ==
    \/ \E p \in Callers, key \in ConcKeys, cidr \in ConcTexts : CallChecks(p, key, cidr)
    \/ \E p \in Callers : CallPut(p)

SpecConc == Init /\ [][NextConc]_vars

(***************************************************************************)
(* The Lambda variant (src/main.go).  Its GetAllCIDRs does not sort (the   *)
(* GET handler sorts), and its RegisterCIDR has no validateUniqueness: it  *)
(* parses the text and calls PutItem.  validateCIDR, DeleteCIDR and the    *)
(* candidate loop are the same code as in the server variant.  The op of   *)
(* a response of this variant starts with "lambda:".                       *)
(***************************************************************************)

LambdaGetAllCIDRs(scan) ==
    IF ~scan.ok THEN [err |-> ErrScan, records |-> <<>>]
    ELSE [err |-> Nil, records |-> scan.items]

LambdaRegisterCIDR(tbl, putOk, key, cidr) ==
    IF validateCIDR(cidr) # Nil THEN [err |-> ErrInvalidCIDR, store |-> tbl]
    ELSE RegisterPut(tbl, putOk, key, cidr)

LambdaGetNextAvailableCIDR(scan) ==
    LET all == LambdaGetAllCIDRs(scan) IN
    IF all.err # Nil THEN [err |-> all.err, cidr |-> ""]
    ELSE LET usedCIDRs == {all.records[n].cidr : n \in
                              {m \in 1..Len(all.records) :
                                  HasPrefix(all.records[m].cidr, "10.")}}
         IN FirstFree(usedCIDRs, 0)

\* handleRequest, GET /: the handler sorts what GetAllCIDRs returned
LambdaHandleList ==
    \E scan \in ScanResults(store) :
        LET r == LambdaGetAllCIDRs(scan) IN
        Respond(store, Response("lambda:list", "", "",
                    IF r.err # Nil THEN StatusInternalServerError ELSE StatusOK,
                    r.err,
                    IF r.err # Nil THEN <<>> ELSE SortByKey(r.records), ""))

\* handleRequest, GET /next
LambdaHandleNext ==
    \E scan \in ScanResults(store) :
        LET r == LambdaGetNextAvailableCIDR(scan) IN
        Respond(store, Response("lambda:next", "", "",
                    IF r.err # Nil THEN StatusInternalServerError ELSE StatusOK,
                    r.err, <<>>, r.cidr))

\* handleRequest, POST with body {"key": key, "cidr": cidr}; PutItem is
\* called only for a text that parses
LambdaHandleRegister(key, cidr) ==
    IF key = "" \/ cidr = ""
    THEN Respond(store, Response("lambda:register", key, cidr, StatusBadRequest,
                     ErrRequired, <<>>, ""))
    ELSE \E putOk \in (IF validateCIDR(cidr) # Nil THEN {FALSE} ELSE BOOLEAN) :
        LET r == LambdaRegisterCIDR(store, putOk, key, cidr) IN
        Respond(r.store, Response("lambda:register", key, cidr,
                    IF r.err # Nil THEN StatusBadRequest ELSE StatusCreated,
                    r.err, <<>>, ""))

\* handleRequest, DELETE with query parameter key
LambdaHandleDelete(key) ==
    IF key = ""
    THEN Respond(store, Response("lambda:delete", key, "", StatusBadRequest,
                     ErrKeyRequired, <<>>, ""))
    ELSE \E delOk \in BOOLEAN :
        LET r == DeleteCIDR(store, delOk, key) IN
        Respond(r.store, Response("lambda:delete", key, "",
                    IF r.err # Nil THEN StatusInternalServerError ELSE StatusOK,
                    r.err, <<>>, ""))

\* SpecLambda: the Lambda handles requests one at a time, each to
\* completion, against a table that starts empty.
NextLambda ==
    \/ LambdaHandleList
    \/ LambdaHandleNext
    \/ \E key \in Keys, cidr \in Texts : LambdaHandleRegister(key, cidr)
    \/ \E key \in Keys : LambdaHandleDelete(key)

SpecLambda == Init /\ [][NextLambda]_vars

\* SpecBoth: the server and the Lambda deployed on the same table, requests
\* of either handled one at a time.  The keys include one that is a proper
\* prefix of another.
BothKeys == {"a", "ab", "b"}

BothTexts == {"10.0.0.0/16", "10.1.0.0/16", "not-a-cidr"}

NextBoth ==
    \/ HandleList
    \/ HandleNext
    \/ \E key \in BothKeys, cidr \in BothTexts : HandleRegister(key, cidr)
    \/ \E key \in BothKeys : HandleDelete(key)
    \/ LambdaHandleList
    \/ LambdaHandleNext
    \/ \E key \in BothKeys, cidr \in BothTexts : LambdaHandleRegister(key, cidr)
    \/ \E key \in BothKeys : LambdaHandleDelete(key)

SpecBoth == Init /\ [][NextBoth]_vars

\* SpecFields: the server and the Lambda on the same table, with request
\* bodies whose key or cidr field may be empty.
FieldKeys == {"", "a", "b"}

FieldTexts == {"", "10.0.0.0/16", "10.1.0.0/16"}

NextFields ==
    \/ HandleList
    \/ HandleNext
    \/ \E key \in FieldKeys, cidr \in FieldTexts : HandleRegister(key, cidr)
    \/ \E key \in FieldKeys : HandleDelete(key)
    \/ LambdaHandleList
    \/ LambdaHandleNext
    \/ \E key \in FieldKeys, cidr \in FieldTexts : LambdaHandleRegister(key, cidr)
    \/ \E key \in FieldKeys : LambdaHandleDelete(key)

SpecFields == Init /\ [][NextFields]_vars

(***************************************************************************)
(* SpecMixed: both variants at work on one table at the same time.  The    *)
(* server's RegisterCIDR calls run as in SpecConc, in two steps; a         *)
(* RegisterCIDR of the Lambda and a DeleteCIDR of either variant make one  *)
(* store call each and so are one step.                                    *)
(***************************************************************************)

\* a DeleteCIDR(key) by some request
ConcDelete(key) ==
    /\ \E delOk \in BOOLEAN : store' = DeleteCIDR(store, delOk, key).store
    /\ UNCHANGED <<before, resp, calls>>

\* a RegisterCIDR(key, cidr) of the Lambda by some request
ConcLambdaRegister(key, cidr) ==
    /\ \E putOk \in BOOLEAN : store' = LambdaRegisterCIDR(store, putOk, key, cidr).store
    /\ UNCHANGED <<before, resp, calls>>

NextMixed ==
    \/ \E p \in Callers, key \in ConcKeys, cidr \in ConcTexts : CallChecks(p, key, cidr)
    \/ \E p \in Callers : CallPut(p)
    \/ \E key \in ConcKeys : ConcDelete(key)
    \/ \E key \in ConcKeys, cidr \in ConcTexts : ConcLambdaRegister(key, cidr)

SpecMixed == Init /\ [][NextMixed]_vars

(***************************************************************************)
(* Properties.                                                             *)
(***************************************************************************)

\* the keys and the block texts a table holds
KeysOf(tbl) == {r.key : r \in tbl}

BlocksOf(tbl) == {r.cidr : r \in tbl}

\* what GetAllCIDRs can return for a readable table, over every Scan order
Listings(tbl) == {GetAllCIDRs(scan).records : scan \in {x \in ScanResults(tbl) : x.ok}}

\* the records of a listing
Listed(records) == {records[i] : i \in 1..Len(records)}

\* the last request was a POST that reached RegisterCIDR
RegisterCalled == resp.op = "register" /\ resp.key # "" /\ resp.cidr # ""

\* the last request was a DELETE that reached DeleteCIDR
DeleteCalled == resp.op = "delete" /\ resp.key # ""

\* the last request was a GET /next whose Scan succeeded
NextAnswered == resp.op = "next" /\ resp.err # ErrScan

\* C1: with requests handled one at a time from an empty table, no two
\* stored records with different keys hold the same block text.
C1_BlockUnique ==
    \A r1, r2 \in store : r1.key # r2.key => r1.cidr # r2.cidr

\* a register of a block held under another key has been refused while the
\* table holds several records
C1_Witness ==
    /\ RegisterCalled
    /\ resp.err = ErrCIDRExists
    /\ Cardinality(store) >= 2

\* C2: of the concurrent RegisterCIDR calls made with one key against the
\* table in which that key is absent, at most one returns success.
C2_AtMostOneSucceeds ==
    \A p, q \in Callers :
        (/\ p # q
         /\ calls[p].pc = "done" /\ calls[q].pc = "done"
         /\ calls[p].key = calls[q].key
         /\ calls[p].err = Nil)
        => calls[q].err # Nil

\* C3: under every interleaving of the Scan and PutItem steps of concurrent
\* RegisterCIDR calls, at most one call with a given block succeeds under
\* distinct keys and the table never holds one block under two keys.
C3_ConcurrentBlockUnique ==
    /\ \A r1, r2 \in store : r1.key # r2.key => r1.cidr # r2.cidr
    /\ \A p, q \in Callers :
           (/\ calls[p].pc = "done" /\ calls[q].pc = "done"
            /\ calls[p].key # calls[q].key
            /\ calls[p].cidr = calls[q].cidr
            /\ calls[p].err = Nil)
           => calls[q].err # Nil

\* C4: a register whose key is already stored fails with "key already
\* exists", whatever block is supplied, also a block another record holds
\* (the table being readable and the block text valid).
C4_PresentKeyIsDuplicateName ==
    (/\ RegisterCalled
     /\ resp.key \in KeysOf(before)
     /\ validateCIDR(resp.cidr) = Nil
     /\ resp.err # ErrScan)
    => resp.err = ErrKeyExists

\* C5: a register of a block text that some record holds, under a key that
\* is not stored, fails with "CIDR already exists" and writes nothing (the
\* table being readable).
C5_HeldBlockIsDuplicateBlock ==
    (/\ RegisterCalled
     /\ resp.key \notin KeysOf(before)
     /\ resp.cidr \in BlocksOf(before)
     /\ resp.err # ErrScan)
    => (resp.err = ErrCIDRExists /\ store = before)

C5_Witness ==
    /\ RegisterCalled
    /\ resp.key \notin KeysOf(before)
    /\ resp.cidr \in BlocksOf(before)
    /\ resp.err = ErrCIDRExists
    /\ resp.status = StatusBadRequest

\* the pool indices whose candidate text no record of the table holds
FreeIndices(tbl) == {i \in 0..PoolLast : Candidate(i) \notin BlocksOf(tbl)}

\* C6: while some candidate 10.i.0.0/16 is held by no record, GET /next
\* returns the candidate of the least such i; on an empty table that is
\* 10.0.0.0/16, and with exactly 10.0.0.0/16 and 10.1.0.0/16 stored it is
\* 10.2.0.0/16.
C6_NextIsLowestFree ==
    NextAnswered =>
        /\ FreeIndices(store) # {} =>
               /\ resp.err = Nil
               /\ \E m \in FreeIndices(store) :
                      /\ \A j \in FreeIndices(store) : m <= j
                      /\ resp.next = Candidate(m)
        /\ store = {} => resp.next = "10.0.0.0/16"
        /\ BlocksOf(store) = {"10.0.0.0/16", "10.1.0.0/16"}
               => resp.next = "10.2.0.0/16"

\* GET /next has returned a three-digit candidate, the hundred candidates
\* below it being held
C6_Witness ==
    /\ NextAnswered
    /\ resp.next = "10.100.0.0/16"
    /\ Cardinality(store) = 100

\* C7: GET /next fails with "no available ... remaining" exactly when all
\* 256 candidate texts are held; it then returns no block, and with a
\* candidate free (and the table readable) it returns a block and no error.
C7_ExhaustedIffAllHeld ==
    NextAnswered =>
        /\ resp.err = ErrNoneLeft <=> FreeIndices(store) = {}
        /\ resp.err = ErrNoneLeft => (resp.next = "" /\ resp.status = StatusInternalServerError)
        /\ FreeIndices(store) # {} => (resp.err = Nil /\ resp.next # "")

\* GET /next has failed on a table that holds the whole pool
C7_Witness ==
    /\ NextAnswered
    /\ resp.err = ErrNoneLeft
    /\ Cardinality(store) = PoolLast + 1

\* C8: a register of a key that is not stored with a valid block text that
\* is not stored succeeds (the table being readable and writable), and a
\* list of the table it leaves returns one record with that key, carrying
\* that block text, and every record stored before, unchanged, and no other.
C8_RegisterThenList ==
    (/\ RegisterCalled
     /\ resp.key \notin KeysOf(before)
     /\ resp.cidr \notin BlocksOf(before)
     /\ validateCIDR(resp.cidr) = Nil
     /\ resp.err \notin {ErrScan, ErrPut})
    => /\ resp.err = Nil
       /\ resp.status = StatusCreated
       /\ \A records \in Listings(store) :
              /\ Cardinality({i \in 1..Len(records) : records[i].key = resp.key}) = 1
              /\ CIDRRecord(resp.key, resp.cidr) \in Listed(records)
              /\ before \subseteq Listed(records)
              /\ Len(records) = Cardinality(before) + 1

\* a register has succeeded on a table that already held two records
C8_Witness ==
    /\ RegisterCalled
    /\ resp.err = Nil
    /\ Cardinality(before) = 2
    /\ Cardinality(store) = 3

\* after a delete that succeeded, a list of the table it leaves holds no
\* record with the deleted key and holds every record that was stored under
\* another key, with its block, and nothing else
DeleteLeavesOthers ==
    (DeleteCalled /\ resp.err = Nil)
    => \A records \in Listings(store) :
           /\ \A i \in 1..Len(records) : records[i].key # resp.key
           /\ Listed(records) = {r \in before : r.key # resp.key}

\* a request other than a register brings no key into the table
OnlyRegisterAddsKeys ==
    resp'.op # "register" => KeysOf(store') \subseteq KeysOf(store)

\* C9: a delete that succeeded removes the record of its key and no other
\* record, and the key stays out of every later list until a register.
C9_DeleteRemovesOnlyNamed ==
    []DeleteLeavesOthers /\ [][OnlyRegisterAddsKeys]_vars

\* a stored record has been deleted from a table that held others
C9_Witness ==
    /\ DeleteCalled
    /\ resp.err = Nil
    /\ resp.key \in KeysOf(before)
    /\ Cardinality(before) >= 2

\* C10: a delete of a key that is not stored returns success and leaves the
\* table as it was (the table being reachable), and a delete repeated after
\* a successful delete succeeds again and changes nothing.
C10_DeleteIdempotent ==
    /\ (DeleteCalled /\ resp.key \notin KeysOf(before) /\ resp.err # ErrDelete)
       => (resp.err = Nil /\ resp.status = StatusOK /\ store = before)
    /\ (DeleteCalled /\ resp.err = Nil)
       => DeleteCIDR(store, TRUE, resp.key) = [err |-> Nil, store |-> store]

\* a key that is not stored has been deleted from a table that holds records
C10_Witness ==
    /\ DeleteCalled
    /\ resp.key \notin KeysOf(before)
    /\ resp.err = Nil
    /\ store # {}

\* C11: a register whose block text does not parse as address/prefix length
\* fails with "invalid CIDR", whatever the table holds and whatever the key,
\* a stored key included; no store call is made, so no store error can take
\* its place, and the table is unchanged.
C11_InvalidBlockRejected ==
    (RegisterCalled /\ (~ParseCIDR(resp.cidr) \/ resp.cidr \in {"not-a-cidr", "10.0.0.0/33"}))
    => /\ resp.err = ErrInvalidCIDR
       /\ resp.status = StatusBadRequest
       /\ store = before

\* a prefix length of 33 has been refused for a key that is stored
C11_Witness ==
    /\ RegisterCalled
    /\ resp.cidr = "10.0.0.0/33"
    /\ resp.key \in KeysOf(before)
    /\ resp.err = ErrInvalidCIDR

\* C12: under every interleaving of register and delete calls of the two
\* variants, no two distinct stored records have the same key.
C12_KeyUnique ==
    \A r1, r2 \in store : r1.key = r2.key => r1 = r2

\* two server calls have registered one key with different blocks, and the
\* table holds a single record of that key
C12_Witness ==
    /\ \E p, q \in Callers :
           /\ calls[p].pc = "done" /\ calls[q].pc = "done"
           /\ calls[p].err = Nil /\ calls[q].err = Nil
           /\ calls[p].key = calls[q].key
           /\ calls[p].cidr # calls[q].cidr
           /\ Cardinality({r \in store : r.key = calls[p].key}) = 1
    /\ Cardinality(store) = 2

\* the last request was a POST to the Lambda that reached RegisterCIDR
LambdaRegisterCalled ==
    resp.op = "lambda:register" /\ resp.key # "" /\ resp.cidr # ""

\* C13: in the Lambda variant a register of a key that is already stored
\* fails and leaves the stored record with its block.
C13_NoUpdateInPlace ==
    (LambdaRegisterCalled /\ resp.key \in KeysOf(before))
    => /\ resp.err # Nil
       /\ store = before

\* C14: in the Lambda variant, after any sequence of POST and DELETE
\* requests, no two stored records with different keys hold the same block
\* text, and a register of a block held under another key fails with
\* "CIDR already exists".
C14_LambdaBlockUnique ==
    /\ \A r1, r2 \in store : r1.key # r2.key => r1.cidr # r2.cidr
    /\ (/\ LambdaRegisterCalled
        /\ resp.key \notin KeysOf(before)
        /\ resp.cidr \in BlocksOf(before)
        /\ resp.err # ErrPut)
       => resp.err = ErrCIDRExists

\* records is strictly ascending in the byte order of its keys
AscendingByKey(records) ==
    \A i, j \in 1..Len(records) : i < j => StrLess(records[i].key, records[j].key)

\* C15: a successful list of either variant returns every stored record,
\* each once, in ascending byte order of key, whatever the order of the Scan.
C15_ListSortedComplete ==
    (resp.op \in {"list", "lambda:list"} /\ resp.err = Nil)
    => /\ Listed(resp.records) = store
       /\ Len(resp.records) = Cardinality(store)
       /\ AscendingByKey(resp.records)

C15_Witness ==
    /\ resp.op \in {"list", "lambda:list"}
    /\ resp.err = Nil
    /\ Len(resp.records) = 3
    /\ KeysOf(store) = {"a", "ab", "b"}

\* C16: a list or a next request, failed or not, leaves the table as it was,
\* and the block a next request answered is the one a second next request
\* gets from any scan of the table as it is after the first.
C16_ReadsArePure ==
    (resp.op \in {"list", "next"})
    => /\ store = before
       /\ (resp.op = "next" /\ resp.err # ErrScan)
          => \A scan \in {x \in ScanResults(store) : x.ok} :
                 GetNextAvailableCIDR(scan) = [err |-> resp.err, cidr |-> resp.next]

C16_Witness ==
    /\ resp.op = "next"
    /\ resp.next = "10.1.0.0/16"
    /\ Cardinality(store) >= 2

\* C17: a register call that returns an error, whichever it is, leaves the
\* table exactly as it was before the call.
C17_FailedRegisterWritesNothing ==
    (resp.op = "register" /\ resp.err # Nil) => store = before

\* a failed uniqueness read on a request the PutItem would have stored
C17_Witness ==
    /\ RegisterCalled
    /\ resp.err = ErrScan
    /\ before # {}
    /\ resp.key \notin KeysOf(before)
    /\ resp.cidr \notin BlocksOf(before)

\* C18: a failure from malformed input or a uniqueness violation is answered
\* with a 4xx status, and a failure from pool exhaustion or from the store
\* with a 5xx status, whatever the request.
C18_ErrorKindMapping ==
    /\ resp.err \in {ErrInvalidCIDR, ErrKeyExists, ErrCIDRExists}
       => resp.status \in 400..499
    /\ resp.err \in {ErrNoneLeft, ErrScan, ErrPut, ErrDelete}
       => resp.status \in 500..599

\* the 256 candidate texts of the pool
Candidates == {Candidate(i) : i \in 0..PoolLast}

\* C19: the answer of a next request is the answer the same request gets
\* from the table without its records whose block is not literally one of
\* the 256 candidate texts.
C19_OnlyCandidatesCount ==
    NextAnswered
    => \A scan \in {x \in ScanResults({r \in before : r.cidr \in Candidates}) : x.ok} :
           GetNextAvailableCIDR(scan) = [err |-> resp.err, cidr |-> resp.next]

\* 10.0.0.0/8 is stored and 10.0.0.0/16 is still the answer
C19_Witness ==
    /\ NextAnswered
    /\ "10.0.0.0/8" \in BlocksOf(before)
    /\ "192.168.0.0/24" \in BlocksOf(before)
    /\ resp.next = "10.0.0.0/16"

\* C20: a register of a text that parses, under a key that is not stored and
\* with no stored record of the identical text, succeeds when the store
\* calls do, and adds exactly that record.
C20_PermissiveRegister ==
    (/\ RegisterCalled
     /\ ParseCIDR(resp.cidr)
     /\ resp.key \notin KeysOf(before)
     /\ resp.cidr \notin BlocksOf(before)
     /\ resp.err \notin {ErrScan, ErrPut})
    => /\ resp.err = Nil
       /\ resp.status = StatusCreated
       /\ store = before \cup {CIDRRecord(resp.key, resp.cidr)}

\* 10.0.0.0/8 is registered while 10.0.0.0/16, which it contains, is stored
C20_Witness ==
    /\ RegisterCalled
    /\ resp.cidr = "10.0.0.0/8"
    /\ "10.0.0.0/16" \in BlocksOf(before)
    /\ resp.err = Nil
    /\ CIDRRecord(resp.key, "10.0.0.0/8") \in store

\* C21: in every state reached by register and delete requests from the
\* empty table, the block text of every stored record is one that
\* net.ParseCIDR, the parse register applies, accepts.
C21_StoredBlocksParse == \A r \in store : ParseCIDR(r.cidr)

\* blocks in and out of the pool are stored, a delete has removed a record,
\* and the texts that do not parse are in the request inputs
C21_Witness ==
    /\ DeleteCalled
    /\ resp.err = Nil
    /\ store # before
    /\ BlocksOf(store) = {"10.0.0.0/8", "192.168.0.0/24"}

\* C22: no stored record has the empty key, and a POST to either variant
\* whose key or cidr field is empty is answered with an error and status
\* 400 and leaves the table unchanged.
C22_NameNonEmpty ==
    /\ \A r \in store : r.key # ""
    /\ (/\ resp.op \in {"register", "lambda:register"}
        /\ (resp.key = "" \/ resp.cidr = ""))
       => /\ resp.err = ErrRequired
          /\ resp.status = StatusBadRequest
          /\ store = before

\* a POST with an empty key and a block text that would have been stored
C22_Witness ==
    /\ resp.op = "register"
    /\ resp.key = ""
    /\ resp.cidr = "10.1.0.0/16"
    /\ resp.err = ErrRequired
    /\ BlocksOf(store) = {"10.0.0.0/16"}

\* the table after the allocation loop has handed out its first k blocks
PoolPrefix(k) ==
    {CIDRRecord(ClientKey(Candidate(i)), Candidate(i)) : i \in 0..(k - 1)}

\* C23: in the allocation loop from the empty table, the table always holds
\* the first k candidates for some k, GET /next then answers candidate k
\* (the 257th, with all 256 held, fails with "no available ... remaining"),
\* and the register of the block answered, the store calls succeeding,
\* succeeds and stores a block that was not stored before.
C23_LoopInOrder ==
    LET k == Cardinality(store) IN
    /\ store = PoolPrefix(k)
    /\ NextAnswered
       => IF k = PoolLast + 1
          THEN resp.err = ErrNoneLeft /\ resp.next = ""
          ELSE resp.err = Nil /\ resp.next = Candidate(k)
    /\ (resp.op = "register" /\ resp.err \notin {ErrScan, ErrPut})
       => /\ resp.err = Nil
          /\ resp.cidr \notin BlocksOf(before)
          /\ store = before \cup {CIDRRecord(resp.key, resp.cidr)}

\* the last block of the pool has been registered
C23_Witness ==
    /\ resp.op = "register"
    /\ resp.cidr = "10.255.0.0/16"
    /\ resp.err = Nil
    /\ Cardinality(store) = PoolLast + 1

\* the pool index of a candidate text
IndexOf(cidr) == CHOOSE i \in 0..PoolLast : Candidate(i) = cidr

\* a GET /next that is answered right after a DELETE that removed a record
\* holding a candidate returns a candidate of no higher index, and exactly
\* the released block when every candidate was held before the DELETE
NextAfterDelete ==
    (/\ DeleteCalled
     /\ resp.err = Nil
     /\ resp'.op = "next"
     /\ resp'.err # ErrScan)
    => \A r \in {x \in before : x.key = resp.key /\ x.cidr \in Candidates} :
           /\ resp'.err = Nil
           /\ resp'.next \in Candidates
           /\ IndexOf(resp'.next) <= IndexOf(r.cidr)
           /\ FreeIndices(before) = {} => resp'.next = r.cidr

\* C24: after a delete of a record that holds candidate 10.i.0.0/16, the
\* next GET /next, no register in between, returns a candidate 10.j.0.0/16
\* with j <= i; when the pool was exhausted before the delete it returns
\* exactly the released block.
C24_ReleasedReused == [][NextAfterDelete]_vars

\* the whole pool was held, the record of 10.0.0.0/16 was released, and
\* GET /next has answered 10.0.0.0/16
C24_Witness ==
    /\ NextAnswered
    /\ resp.next = Candidate(0)
    /\ Cardinality(store) = PoolLast
    /\ Candidate(PoolLast) \in BlocksOf(store)

\* a DELETE of the key that the request before it registered, as a new key
\* with a new block, puts the table back as it was before the register, and
\* the same register then passes its validations again
DeleteUndoesRegister ==
    (/\ RegisterCalled
     /\ resp.err = Nil
     /\ resp.key \notin KeysOf(before)
     /\ resp.cidr \notin BlocksOf(before)
     /\ resp'.op = "delete"
     /\ resp'.key = resp.key
     /\ resp'.err = Nil)
    => /\ store' = before
       /\ \A scan \in {x \in ScanResults(store') : x.ok} :
              /\ RegisterCIDR(store', scan, TRUE, resp.key, resp.cidr).err = Nil
              /\ RegisterCIDR(store', scan, TRUE, resp.key, resp.cidr).store = store

\* C25: in the server variant, register(name, block) of an absent name and
\* an absent valid block followed by delete(name) returns the table to the
\* state before the register, and the same register succeeds again.
C25_RegisterDeleteRoundTrip == [][DeleteUndoesRegister]_vars

\* a record has just been deleted from a table that keeps two others
C25_Witness ==
    /\ DeleteCalled
    /\ resp.err = Nil
    /\ before = store \cup {CIDRRecord(resp.key, "10.0.0.0/8")}
    /\ Cardinality(store) = 2
    /\ Cardinality(before) = 3

====
